---- MODULE Spec2Model ----
(***************************************************************************)
(* A model of convert_recipes.py (RecipeParser): the text-extraction       *)
(* engine that turns a recipe document into a structured record, and the   *)
(* batch loop around it.                                                   *)
(*                                                                         *)
(* Text is a sequence of one-character tokens.  An ASCII character is the  *)
(* one-character string itself; any other character is the string "U+XXXX" *)
(* of its code point (U+76D0 is the character of "salt", U+FF1A the        *)
(* full-width colon, ...).  Python's None is the empty tuple None and a    *)
(* present optional value v is the one-element tuple Some(v).              *)
(***************************************************************************)
EXTENDS Integers, Sequences, FiniteSets, TLC

VARIABLES
  pc,        \* position of the program: "start", or the name of the call that has returned
  content,   \* the document text handed to the document-level functions
  readable,  \* whether open()/read() of the document succeeds
  text,      \* the line or fragment handed to the line-level functions
  ret,       \* the value the call returned
  applied,   \* line-level: whether line 198 (notes = sentinel) was executed
  files,     \* batch: the *.md files under dishes/, path -> [content, readable]
  todo,      \* batch: paths rglob has not yielded yet
  recipes,   \* batch: the list `recipes` of convert_all_recipes
  output     \* batch: what json.dump wrote (None before the write)

vars == <<pc, content, readable, text, ret, applied, files, todo, recipes, output>>

None == << >>
Some(v) == <<v>>

-----------------------------------------------------------------------------
(* Characters and Python's string primitives                               *)

Digits == {"0", "1", "2", "3", "4", "5", "6", "7", "8", "9"}

LowerLetters == {"a", "b", "c", "d", "e", "f", "g", "h", "i", "j", "k", "l", "m",
                 "n", "o", "p", "q", "r", "s", "t", "u", "v", "w", "x", "y", "z"}

UpperLetters == {"A", "B", "C", "D", "E", "F", "G", "H", "I", "J", "K", "L", "M",
                 "N", "O", "P", "Q", "R", "S", "T", "U", "V", "W", "X", "Y", "Z"}

\* str.lower() / re.IGNORECASE on one character
ToLower(c) ==
  IF c \in UpperLetters
  THEN [u \in UpperLetters |->
          CASE u = "A" -> "a" [] u = "B" -> "b" [] u = "C" -> "c" [] u = "D" -> "d"
            [] u = "E" -> "e" [] u = "F" -> "f" [] u = "G" -> "g" [] u = "H" -> "h"
            [] u = "I" -> "i" [] u = "J" -> "j" [] u = "K" -> "k" [] u = "L" -> "l"
            [] u = "M" -> "m" [] u = "N" -> "n" [] u = "O" -> "o" [] u = "P" -> "p"
            [] u = "Q" -> "q" [] u = "R" -> "r" [] u = "S" -> "s" [] u = "T" -> "t"
            [] u = "U" -> "u" [] u = "V" -> "v" [] u = "W" -> "w" [] u = "X" -> "x"
            [] u = "Y" -> "y" [] u = "Z" -> "z"][c]
  ELSE c

LowerStr(s) == [i \in 1..Len(s) |-> ToLower(s[i])]

\* \d
IsDigit(c) == c \in Digits

\* [A-Za-z]
IsLatin(c) == c \in LowerLetters \cup UpperLetters

\* \s, and the characters str.strip() removes
IsSpace(c) == c \in {" ", "\t", "\n", "\r", "U+3000"}

\* the four parenthesis characters of [（）()]
OpenParens == {"U+FF08", "("}
CloseParens == {"U+FF09", ")"}
IsParen(c) == c \in OpenParens \cup CloseParens

Min(S) == CHOOSE x \in S : \A y \in S : x <= y
Max(S) == CHOOSE x \in S : \A y \in S : x >= y

\* s[i:] and s[:i] with 1-based i (s[i..])
From(s, i) == SubSeq(s, i, Len(s))
Upto(s, i) == SubSeq(s, 1, i)

\* str.strip()
Strip(s) ==
  LET keep == {i \in 1..Len(s) : ~IsSpace(s[i])}
  IN IF keep = {} THEN << >> ELSE SubSeq(s, Min(keep), Max(keep))

\* str.strip(chars)
StripChars(s, chars) ==
  LET keep == {i \in 1..Len(s) : s[i] \notin chars}
  IN IF keep = {} THEN << >> ELSE SubSeq(s, Min(keep), Max(keep))

\* whether p occurs in s at position i
MatchAt(s, i, p) ==
  /\ i >= 1
  /\ i + Len(p) - 1 <= Len(s)
  /\ \A k \in 1..Len(p) : s[i + k - 1] = p[k]

\* the same, ignoring case (re.IGNORECASE)
MatchAtNoCase(s, i, p) ==
  /\ i >= 1
  /\ i + Len(p) - 1 <= Len(s)
  /\ \A k \in 1..Len(p) : ToLower(s[i + k - 1]) = ToLower(p[k])

\* str.startswith / str.endswith
StartsWith(s, p) == MatchAt(s, 1, p)
EndsWith(s, p) == Len(p) <= Len(s) /\ MatchAt(s, Len(s) - Len(p) + 1, p)

\* p in s
Contains(s, p) == \E i \in 1..(Len(s) + 1) : MatchAt(s, i, p)

\* c in s, for one character
HasChar(s, c) == \E i \in 1..Len(s) : s[i] = c

\* s.find(p) (1-based; 0 when absent)
Find(s, p) ==
  LET at == {i \in 1..(Len(s) + 1) : MatchAt(s, i, p)}
  IN IF at = {} THEN 0 ELSE Min(at)

\* s.split(c, 1) for a character c that occurs in s
SplitOnce(s, c) ==
  LET i == Min({k \in 1..Len(s) : s[k] = c})
  IN <<SubSeq(s, 1, i - 1), SubSeq(s, i + 1, Len(s))>>

\* s.split(c) / re.split('[..]', s): the pieces between the characters of seps
RECURSIVE SplitOn(_, _)
SplitOn(s, seps) ==
  LET at == {k \in 1..Len(s) : s[k] \in seps}
  IN IF at = {} THEN <<s>>
     ELSE <<SubSeq(s, 1, Min(at) - 1)>> \o SplitOn(SubSeq(s, Min(at) + 1, Len(s)), seps)

SplitLines(s) == SplitOn(s, {"\n"})

\* sep.join(parts)
RECURSIVE Join(_, _)
Join(parts, sep) ==
  IF Len(parts) = 0 THEN << >>
  ELSE IF Len(parts) = 1 THEN parts[1]
  ELSE parts[1] \o sep \o Join(Tail(parts), sep)

\* [f for x in xs if keep]
RECURSIVE NonEmpty(_)
NonEmpty(xs) ==
  IF xs = << >> THEN << >>
  ELSE IF Head(xs) = << >> THEN NonEmpty(Tail(xs))
  ELSE <<Head(xs)>> \o NonEmpty(Tail(xs))

-----------------------------------------------------------------------------
(* The static tables                                                       *)

FullColon == "U+FF1A"
Dunhao == "U+3001"
FullComma == "U+FF0C"
FullSemicolon == "U+FF1B"

\* the unit alternation of QUANTITY_PATTERN, in the pattern's order
UNITS == <<
  <<"g">>, <<"k", "g">>, <<"m", "g">>, <<"m", "l">>, <<"l">>, <<"L">>,
  <<"U+65A4">>, <<"U+4E24">>, <<"U+94B1">>, <<"U+514B">>, <<"U+5343", "U+514B">>,
  <<"U+6BEB", "U+514B">>, <<"U+6BEB", "U+5347">>, <<"U+5347">>,
  <<"U+4E2A">>, <<"U+53EA">>, <<"U+7247">>, <<"U+6839">>, <<"U+74E3">>, <<"U+9897">>,
  <<"U+5757">>, <<"U+52FA">>, <<"U+5319">>, <<"U+5C0F", "U+52FA">>,
  <<"U+5927", "U+52FA">>, <<"U+6C64", "U+52FA">>, <<"U+8336", "U+52FA">>,
  <<"U+64AE">>, <<"U+7C92">>, <<"U+6735">>, <<"U+6761">>, <<"U+6BB5">>, <<"U+676F">>,
  <<"U+7897">>, <<"U+9505">>, <<"U+4EBA">>, <<"U+4EFD">>, <<"U+4EFD", "U+6570">>,
  <<"c", "m">>, <<"U+5398", "U+7C73">>, <<"m", "m">>, <<"U+6BEB", "U+7C73">>,
  <<"U+7C73">>, <<"U+5BF8">>, <<"U+6EF4">>, <<"U+5305">>, <<"U+888B">>, <<"U+76D2">>,
  <<"U+74F6">>, <<"U+7F50">>, <<"U+68F5">>, <<"U+5934">>, <<"U+5C3E">> >>

\* QUALITATIVE_KEYWORDS, in the tuple's order
QUALITATIVE_KEYWORDS == <<
  <<"U+9002", "U+91CF">>,
  <<"U+5C11", "U+8BB8">>,
  <<"U+82E5", "U+5E72">>,
  <<"U+9002", "U+5F53">>,
  <<"U+968F", "U+610F">>,
  <<"U+6309", "U+53E3", "U+5473">>,
  <<"U+914C", "U+60C5">>,
  <<"U+9002", "U+91CF", "U+5373", "U+53EF">>,
  <<"U+8DB3", "U+91CF">>,
  <<"U+5C11", "U+91CF">>,
  <<"U+5145", "U+8DB3">>,
  <<"U+9002", "U+91CF", "/", "U+6309", "U+53E3", "U+5473">>,
  <<"U+9002", "U+91CF", "U+FF08", "U+6309", "U+53E3", "U+5473", "U+FF09">> >>

\* the sentinel note of line 198
SENTINEL == <<"U+91CF", "U+672A", "U+6307", "U+5B9A">>

-----------------------------------------------------------------------------
(* _strip_parenthetical                                                    *)

\* re.sub(r'[(FW(]([^()FW()]+)[)FW)]', replacer, text) scanning from position i:
\* the cleaned text and the notes the replacer collected
RECURSIVE SubParens(_, _)
SubParens(t, i) ==
  IF i > Len(t) THEN [cleaned |-> << >>, notes |-> << >>]
  ELSE
    LET parensAfter == {k \in (i + 1)..Len(t) : IsParen(t[k])}
        j == IF parensAfter = {} THEN 0 ELSE Min(parensAfter)
        matches == t[i] \in OpenParens /\ j > i + 1 /\ t[j] \in CloseParens
    IN IF matches
       THEN LET inner == Strip(SubSeq(t, i + 1, j - 1))
                rest == SubParens(t, j + 1)
            IN [cleaned |-> rest.cleaned,
                notes |-> (IF inner # << >> THEN <<inner>> ELSE << >>) \o rest.notes]
       ELSE LET rest == SubParens(t, i + 1)
            IN [cleaned |-> <<t[i]>> \o rest.cleaned, notes |-> rest.notes]

_strip_parenthetical(t) ==
  IF t = << >> THEN [cleaned |-> << >>, notes |-> << >>]
  ELSE LET r == SubParens(t, 1)
       IN [cleaned |-> Strip(r.cleaned), notes |-> r.notes]

-----------------------------------------------------------------------------
(* _split_name_quantity                                                    *)

\* re.search(r'(?<![A-Za-z])(\d+(?:\.\d+)?)', text).start(), 0 when no match
DigitMatchStart(t) ==
  LET at == {i \in 1..Len(t) : IsDigit(t[i]) /\ (i = 1 \/ ~IsLatin(t[i - 1]))}
  IN IF at = {} THEN 0 ELSE Min(at)

\* `$` without re.MULTILINE: the end of the text, or just before a final newline
AtDollar(t, p) == p = Len(t) + 1 \/ (p = Len(t) /\ t[p] = "\n")

\* (kw)\)?$ at position p
KeywordTailAt(t, p, kw) ==
  /\ MatchAt(t, p, kw)
  /\ LET q == p + Len(kw)
     IN \/ (q <= Len(t) /\ t[q] = ")" /\ AtDollar(t, q + 1))
        \/ AtDollar(t, q)

\* \s*(kw1|kw2|...)\)?$ right after position e: the keyword positions p that match
KeywordStarts(t, e) ==
  {p \in (e + 1)..(Len(t) + 1) :
     /\ \A k \in (e + 1)..(p - 1) : IsSpace(t[k])
     /\ \E n \in 1..Len(QUALITATIVE_KEYWORDS) : KeywordTailAt(t, p, QUALITATIVE_KEYWORDS[n])}

\* re.search(r'(.+?)\s*(kw1|...)\)?$', text): groups 1 and 2, or None.
\* The leftmost start s wins, then the shortest group 1 (lazy), then the longest
\* run of \s (greedy), then the first alternative in the pattern's order.
KeywordMatch(t) ==
  LET spans == {se \in (1..Len(t)) \X (1..Len(t)) :
                  /\ se[1] <= se[2]
                  /\ \A k \in se[1]..se[2] : t[k] # "\n"
                  /\ KeywordStarts(t, se[2]) # {}}
  IN IF spans = {} THEN None
     ELSE LET s == Min({se[1] : se \in spans})
              e == Min({se[2] : se \in {x \in spans : x[1] = s}})
              p == Max(KeywordStarts(t, e))
              n == Min({m \in 1..Len(QUALITATIVE_KEYWORDS) :
                          KeywordTailAt(t, p, QUALITATIVE_KEYWORDS[m])})
          IN Some(<<SubSeq(t, s, e), QUALITATIVE_KEYWORDS[n]>>)

_split_name_quantity(t) ==
  IF t = << >> THEN <<<< >>, << >>>>
  ELSE IF HasChar(t, FullColon)
    THEN <<Strip(SplitOnce(t, FullColon)[1]), Strip(SplitOnce(t, FullColon)[2])>>
  ELSE IF HasChar(t, ":")
    THEN <<Strip(SplitOnce(t, ":")[1]), Strip(SplitOnce(t, ":")[2])>>
  ELSE IF HasChar(t, "=")
    THEN <<Strip(SplitOnce(t, "=")[1]), Strip(SplitOnce(t, "=")[2])>>
  ELSE IF DigitMatchStart(t) # 0
    THEN <<Strip(Upto(t, DigitMatchStart(t) - 1)), Strip(From(t, DigitMatchStart(t)))>>
  ELSE IF KeywordMatch(t) # None
    THEN <<Strip(KeywordMatch(t)[1][1]), Strip(KeywordMatch(t)[1][2])>>
  ELSE <<Strip(t), << >>>>

-----------------------------------------------------------------------------
(* QUANTITY_PATTERN and _create_ingredient_entry                           *)

\* the positions at which (\d+(?:\.\d+)?) can end when it starts at i
NumberEnds(s, i) ==
  LET ints == {a \in i..Len(s) : \A k \in i..a : IsDigit(s[k])}
  IN ints \cup
     {b \in (i + 2)..Len(s) :
        \E a \in ints : /\ a + 2 <= b
                        /\ s[a + 1] = "."
                        /\ \A k \in (a + 2)..b : IsDigit(s[k])}

\* the unit alternatives (indexes into UNITS) that match at p, ignoring case
UnitsAt(s, p) == {n \in 1..Len(UNITS) : MatchAtNoCase(s, p, UNITS[n])}

\* \s*(unit) right after position e: the unit positions that match
UnitStarts(s, e) ==
  {p \in (e + 1)..(Len(s) + 1) :
     /\ \A k \in (e + 1)..(p - 1) : IsSpace(s[k])
     /\ UnitsAt(s, p) # {}}

\* QUANTITY_PATTERN.search(s): groups 1 and 2, or None.  Leftmost start, then
\* the longest number (greedy), the longest \s run, the first unit alternative.
QuantitySearch(s) ==
  LET hits == {ie \in (1..Len(s)) \X (1..Len(s)) :
                 /\ ie[2] \in NumberEnds(s, ie[1])
                 /\ UnitStarts(s, ie[2]) # {}}
  IN IF hits = {} THEN None
     ELSE LET i == Min({x[1] : x \in hits})
              e == Max({x[2] : x \in {y \in hits : y[1] = i}})
              p == Max(UnitStarts(s, e))
              n == Min(UnitsAt(s, p))
          IN Some([number |-> SubSeq(s, i, e),
                   unit |-> SubSeq(s, p, p + Len(UNITS[n]) - 1)])

DigitValue(c) ==
  CASE c = "0" -> 0 [] c = "1" -> 1 [] c = "2" -> 2 [] c = "3" -> 3 [] c = "4" -> 4
    [] c = "5" -> 5 [] c = "6" -> 6 [] c = "7" -> 7 [] c = "8" -> 8 [] c = "9" -> 9

RECURSIVE DigitsValue(_)
DigitsValue(d) ==
  IF d = << >> THEN 0 ELSE 10 * DigitsValue(Upto(d, Len(d) - 1)) + DigitValue(d[Len(d)])

RECURSIVE Reduce(_, _)
Reduce(m, e) == IF e > 0 /\ m % 10 = 0 THEN Reduce(m \div 10, e - 1) ELSE [m |-> m, e |-> e]

\* float(number): the decimal m / 10^e in lowest terms
Float(number) ==
  LET dot == {k \in 1..Len(number) : number[k] = "."}
  IN IF dot = {} THEN [m |-> DigitsValue(number), e |-> 0]
     ELSE LET k == Min(dot)
          IN Reduce(DigitsValue(Upto(number, k - 1) \o From(number, k + 1)),
                    Len(number) - k)

\* re.fullmatch(r'[-*_]{2,}', text)
IsSeparatorLine(t) == Len(t) >= 2 /\ \A k \in 1..Len(t) : t[k] \in {"-", "*", "_"}

\* lines 166-170: what is displayed and what is searched for the number
QuantityDisplay(quantity_part) ==
  IF HasChar(quantity_part, "=") /\ Strip(SplitOnce(quantity_part, "=")[1]) # << >>
  THEN Strip(SplitOnce(quantity_part, "=")[1])
  ELSE quantity_part

QuantitySearchText(quantity_part, t) ==
  IF HasChar(quantity_part, "=")
  THEN LET left == Strip(SplitOnce(quantity_part, "=")[1])
           right == Strip(SplitOnce(quantity_part, "=")[2])
       IN IF right # << >> THEN right ELSE IF left # << >> THEN left ELSE quantity_part
  ELSE IF quantity_part # << >> THEN quantity_part ELSE t

\* line 177: QUANTITY_PATTERN.search(quantity_search) or QUANTITY_PATTERN.search(text)
QuantityMatch(search, t) ==
  IF QuantitySearch(search) # None THEN QuantitySearch(search) ELSE QuantitySearch(t)

\* line 178
QuantityValue(quantity_match) ==
  IF quantity_match # None THEN Some(Float(quantity_match[1].number)) ELSE None

\* a faulty variant: the unit is kept only when it is spelled as the vocabulary spells it
UnitIfSpelledAsListed(quantity_match) ==
  IF quantity_match # None /\ \E n \in 1..Len(UNITS) : UNITS[n] = quantity_match[1].unit
  THEN Some(quantity_match[1].unit) ELSE None

\* line 179
Unit(quantity_match) ==
  IF quantity_match # None THEN Some(quantity_match[1].unit) ELSE None

\* lines 173-174 and 182: the notes taken out of the parentheses of a stripped line
ExtractedNotes(t) ==
  LET split == _split_name_quantity(t)
  IN NonEmpty(_strip_parenthetical(split[1]).notes
              \o _strip_parenthetical(QuantityDisplay(split[2])).notes)

\* lines 186-192: the dictionary before the name is validated
IngredientDict(t) ==
  LET split == _split_name_quantity(t)
      name_part == split[1]
      quantity_part == split[2]
      name_clean == _strip_parenthetical(name_part).cleaned
      quantity_display == _strip_parenthetical(QuantityDisplay(quantity_part)).cleaned
      quantity_match == QuantityMatch(QuantitySearchText(quantity_part, t), t)
      notes == ExtractedNotes(t)
  IN [name |-> IF name_clean # << >>
               THEN Some(StripChars(name_clean, {FullColon, ":", "="})) ELSE None,
      quantity |-> QuantityValue(quantity_match),
      unit |-> Unit(quantity_match),
      text_quantity |-> IF quantity_display # << >> THEN Some(quantity_display) ELSE None,
      notes |-> IF notes # << >> THEN Some(Join(notes, <<FullSemicolon>>)) ELSE None]

\* `if ingredient['name']`: neither None nor the empty string
NameIsTruthy(ingredient) == ingredient.name # None /\ ingredient.name # Some(<< >>)

\* a faulty variant: the sentinel is written whenever the notes are empty
SentinelWheneverNoNotes(ingredient) == ingredient.notes = None

\* line 197
HasNoQuantityInformation(ingredient) ==
  /\ ingredient.text_quantity = None
  /\ ingredient.quantity = None
  /\ ingredient.notes = None

\* whether a call with raw_text reaches line 198
ReachesSentinel(raw_text) ==
  LET t == Strip(raw_text)
  IN /\ t # << >>
     /\ ~IsSeparatorLine(t)
     /\ NameIsTruthy(IngredientDict(t))
     /\ HasNoQuantityInformation(IngredientDict(t))

_create_ingredient_entry(raw_text) ==
  LET t == Strip(raw_text)
  IN IF t = << >> \/ IsSeparatorLine(t) THEN None
     ELSE LET ingredient == IngredientDict(t)
          IN IF NameIsTruthy(ingredient)
             THEN IF HasNoQuantityInformation(ingredient)
                  THEN Some([ingredient EXCEPT !.notes = Some(SENTINEL)])
                  ELSE Some(ingredient)
             ELSE None

-----------------------------------------------------------------------------
(* Section location: the regular expression shared by parse_ingredients,   *)
(* parse_steps and parse_notes                                             *)

H_jisuan == <<"U+8BA1", "U+7B97">>
H_bibei == <<"U+5FC5", "U+5907", "U+539F", "U+6599", "U+548C", "U+5DE5", "U+5177">>
H_jisuan_he_caozuo == <<"U+8BA1", "U+7B97", "U+548C", "U+64CD", "U+4F5C">>
H_caozuo == <<"U+64CD", "U+4F5C">>
H_caozuo_buzhou == <<"U+64CD", "U+4F5C", "U+6B65", "U+9AA4">>
H_caozuo_liucheng == <<"U+64CD", "U+4F5C", "U+6D41", "U+7A0B">>
H_zuofa == <<"U+505A", "U+6CD5">>
H_buzhou == <<"U+6B65", "U+9AA4">>
H_fujia == <<"U+9644", "U+52A0", "U+5185", "U+5BB9">>

\* step_sections of parse_steps, in the list's order
STEP_SECTIONS ==
  <<H_jisuan_he_caozuo, H_caozuo, H_caozuo_buzhou, H_caozuo_liucheng, H_zuofa, H_buzhou>>

\* `^` under re.MULTILINE
AtLineStart(c, q) == q = 1 \/ (q > 1 /\ q <= Len(c) + 1 /\ c[q - 1] = "\n")

\* the lookahead (?=^##(?!#)|\Z) at position q
SectionEndsAt(c, q) ==
  \/ q = Len(c) + 1
  \/ /\ AtLineStart(c, q)
     /\ MatchAt(c, q, <<"#", "#">>)
     /\ ~(q + 2 <= Len(c) /\ c[q + 2] = "#")

\* ##\s*(?:alt1|alt2|...) starting at i: the pairs <<n, g>> of an alternative n
\* that matches and the position g right after it
HeadingMatch(c, i, alts) ==
  {x \in (1..Len(alts)) \X ((i + 2)..(Len(c) + 1)) :
     LET p == x[2] - Len(alts[x[1]])
     IN /\ p >= i + 2
        /\ MatchAt(c, i, <<"#", "#">>)
        /\ \A k \in (i + 2)..(p - 1) : IsSpace(c[k])
        /\ MatchAt(c, p, alts[x[1]])}

\* re.search(r'##\s*(?:alt1|...)(.*?)(?=^##(?!#)|\Z)', content, re.DOTALL | re.MULTILINE):
\* None, or the span [from, to] of group 1 (to = from - 1 when it is empty)
SectionSearch(c, alts) ==
  LET starts == {i \in 1..Len(c) : HeadingMatch(c, i, alts) # {}}
  IN IF starts = {} THEN None
     ELSE LET i == Min(starts)
              n == Min({x[1] : x \in HeadingMatch(c, i, alts)})
              g == CHOOSE q \in 1..(Len(c) + 1) : <<n, q>> \in HeadingMatch(c, i, alts)
              e == Min({q \in g..(Len(c) + 1) : SectionEndsAt(c, q)})
          IN Some([from |-> g, to |-> e - 1])

SectionText(c, span) == SubSeq(c, span.from, span.to)

-----------------------------------------------------------------------------
(* parse_ingredients                                                       *)

IsListMarker(ch) == ch \in {"-", "*", "+"}

\* str.lstrip()
LStrip(s) ==
  LET keep == {i \in 1..Len(s) : ~IsSpace(s[i])}
  IN IF keep = {} THEN << >> ELSE SubSeq(s, Min(keep), Len(s))

\* re.sub(r'^[-*+]\s*', '', line) for a line that starts with a list marker
RemoveListMarker(line) == LStrip(Tail(line))

ZHU_COLON == <<"U+6CE8", "U+FF1A">>
ZHUYI == <<"U+6CE8", "U+610F">>
WARNING == <<"W", "A", "R", "N", "I", "N", "G">>

\* line 274
IsRemarkLine(line) ==
  StartsWith(line, ZHU_COLON) \/ StartsWith(line, ZHUYI) \/ StartsWith(line, WARNING)

\* a faulty variant: every line with an enumeration comma is split
IsMultiItemAnyComma(line) == HasChar(line, Dunhao) \/ HasChar(line, FullComma)

\* lines 278-283: multi_sep and not has_numeric and not has_special_sep
IsMultiItem(line) ==
  /\ HasChar(line, Dunhao) \/ HasChar(line, FullComma)
  /\ ~\E k \in 1..Len(line) : IsDigit(line[k])
  /\ ~\E sep \in {"=", ":", FullColon, "*"} : HasChar(line, sep)

\* [item.strip() for item in re.split(r'[dunhao,comma]', line) if item.strip()]
RECURSIVE StripEach(_)
StripEach(xs) == IF xs = << >> THEN << >> ELSE <<Strip(Head(xs))>> \o StripEach(Tail(xs))

Items(line) == NonEmpty(StripEach(SplitOn(line, {Dunhao, FullComma})))

\* the ingredients of the items that have one, in order
RECURSIVE EntriesOf(_)
EntriesOf(items) ==
  IF items = << >> THEN << >>
  ELSE _create_ingredient_entry(Head(items)) \o EntriesOf(Tail(items))

\* the body of the loop of lines 264-294: what one line appends to `ingredients`
IngredientsOfLine(raw_line) ==
  LET stripped == Strip(raw_line)
  IN IF stripped = << >> \/ ~IsListMarker(stripped[1]) THEN << >>
     ELSE LET line == RemoveListMarker(stripped)
          IN IF IsRemarkLine(line) THEN << >>
             ELSE IF IsMultiItem(line) THEN EntriesOf(Items(line))
             ELSE _create_ingredient_entry(line)

RECURSIVE IngredientsOfLines(_)
IngredientsOfLines(lines) ==
  IF lines = << >> THEN << >>
  ELSE IngredientsOfLine(Head(lines)) \o IngredientsOfLines(Tail(lines))

\* lines 252-256: the section the ingredients are read from
IngredientSection(c) ==
  IF SectionSearch(c, <<H_jisuan>>) # None THEN SectionSearch(c, <<H_jisuan>>)
  ELSE SectionSearch(c, <<H_bibei>>)

parse_ingredients(c) ==
  IF IngredientSection(c) = None THEN << >>
  ELSE IngredientsOfLines(SplitLines(SectionText(c, IngredientSection(c)[1])))

-----------------------------------------------------------------------------
(* parse_steps                                                             *)

\* lines 321-325: the first heading of step_sections whose search matches
StepSection(c) ==
  LET found == {n \in 1..Len(STEP_SECTIONS) : SectionSearch(c, <<STEP_SECTIONS[n]>>) # None}
  IN IF found = {} THEN None ELSE SectionSearch(c, <<STEP_SECTIONS[Min(found)]>>)

\* re.match(r'^\d+[.)dunhao]?\s*(.*)', line).group(1).strip(), None when no match
NumberedDescription(line) ==
  IF line = << >> \/ ~IsDigit(line[1]) THEN None
  ELSE LET a == Max({k \in 1..Len(line) : \A j \in 1..k : IsDigit(line[j])})
           b == IF a + 1 <= Len(line) /\ line[a + 1] \in {".", ")", Dunhao} THEN a + 1 ELSE a
       IN Some(Strip(From(line, b + 1)))

\* lines 339-347: the description of a non-empty stripped line ('' when it has none)
StepDescription(line) ==
  IF IsListMarker(line[1]) THEN Strip(RemoveListMarker(line))
  ELSE IF NumberedDescription(line) # None THEN NumberedDescription(line)[1]
  ELSE << >>

\* a faulty variant: the counter advances on every non-blank line
NextStepNumEveryLine(step_num, line) == IF line = << >> THEN step_num ELSE step_num + 1

\* line 357 and the `continue`s before it: step_num after one stripped line
NextStepNum(step_num, line) ==
  IF line = << >> THEN step_num
  ELSE IF StepDescription(line) = << >> THEN step_num
  ELSE step_num + 1

\* the loop of lines 333-357 over the remaining lines
RECURSIVE StepsOfLines(_, _)
StepsOfLines(lines, step_num) ==
  IF lines = << >> THEN << >>
  ELSE LET line == Strip(Head(lines))
           emitted == IF line = << >> \/ StepDescription(line) = << >> THEN << >>
                      ELSE <<[step |-> step_num, description |-> StepDescription(line)]>>
       IN emitted \o StepsOfLines(Tail(lines), NextStepNum(step_num, line))

parse_steps(c) ==
  IF StepSection(c) = None THEN << >>
  ELSE StepsOfLines(SplitLines(SectionText(c, StepSection(c)[1])), 1)

-----------------------------------------------------------------------------
(* parse_notes                                                             *)

RUGUO == <<"U+5982", "U+679C", "U+60A8", "U+9075", "U+5FAA">>

\* lines 378-381: the section the notes are read from
NotesSection(c) ==
  IF SectionSearch(c, <<H_fujia>>) # None THEN SectionSearch(c, <<H_fujia>>)
  ELSE SectionSearch(c, <<H_jisuan_he_caozuo, H_caozuo>>)

\* line 388
IsNoteLine(line) ==
  line # << >> /\ (StartsWith(line, <<"-">>) \/ StartsWith(line, <<"*">>) \/ StartsWith(line, RUGUO))

RECURSIVE NotesOfLines(_)
NotesOfLines(lines) ==
  IF lines = << >> THEN << >>
  ELSE (IF IsNoteLine(Strip(Head(lines))) THEN <<Strip(Head(lines))>> ELSE << >>)
       \o NotesOfLines(Tail(lines))

parse_notes(c) ==
  IF NotesSection(c) = None THEN << >>
  ELSE NotesOfLines(SplitLines(SectionText(c, NotesSection(c)[1])))

-----------------------------------------------------------------------------
(* parse_difficulty, parse_servings, extract_description                   *)

DIFFICULTY_LABEL == <<"U+9884", "U+4F30", "U+70F9", "U+996A", "U+96BE", "U+5EA6", "U+FF1A">>
STAR == "U+2605"

\* re.search(r'LABEL(STAR+)', content): None, or the span of group 0 and the stars
DifficultyMatch(c) ==
  LET n == Len(DIFFICULTY_LABEL)
      starts == {i \in 1..Len(c) : MatchAt(c, i, DIFFICULTY_LABEL)
                                   /\ i + n <= Len(c) /\ c[i + n] = STAR}
  IN IF starts = {} THEN None
     ELSE LET i == Min(starts)
              last == Max({k \in (i + n)..Len(c) : \A j \in (i + n)..k : c[j] = STAR})
          IN Some([group0 |-> SubSeq(c, i, last), stars |-> last - (i + n) + 1])

parse_difficulty(c) == IF DifficultyMatch(c) # None THEN DifficultyMatch(c)[1].stars ELSE 1

parse_servings(c) == 1

\* re.match(r'#[^#].*?\n\n(.*?)(?=##)', content, re.DOTALL): None, or group 1.
\* q is where the blank line (\n\n) starts and r where the lookahead ## starts.
DescriptionMatch(c) ==
  LET ok == Len(c) >= 2 /\ c[1] = "#" /\ c[2] # "#"
      qr == {x \in (3..Len(c)) \X (3..Len(c)) :
               /\ MatchAt(c, x[1], <<"\n", "\n">>)
               /\ x[2] >= x[1] + 2
               /\ MatchAt(c, x[2], <<"#", "#">>)}
  IN IF ~ok \/ qr = {} THEN None
     ELSE LET q == Min({x[1] : x \in qr})
              r == Min({x[2] : x \in {y \in qr : y[1] = q}})
          IN Some(SubSeq(c, q + 2, r - 1))

extract_description(c) ==
  IF DescriptionMatch(c) = None THEN << >>
  ELSE LET desc == Strip(DescriptionMatch(c)[1])
       IN IF DifficultyMatch(c) # None /\ ~EndsWith(desc, DifficultyMatch(c)[1].group0)
          THEN desc \o <<"\n", "\n">> \o DifficultyMatch(c)[1].group0
          ELSE desc

-----------------------------------------------------------------------------
(* parse_recipe_file                                                       *)

\* re.search(r'^#\s+(.+)', content, re.MULTILINE): None, or group 1.  At the
\* leftmost line that starts with '#', \s+ takes the longest run of blanks
\* (newlines included) that still leaves a character other than '\n' for (.+),
\* and (.+) runs to the end of that character's line.
TitleMatch(c) ==
  LET hits == {x \in (1..Len(c)) \X (1..Len(c)) :
                 /\ AtLineStart(c, x[1])
                 /\ c[x[1]] = "#"
                 /\ x[2] >= x[1] + 2
                 /\ \A k \in (x[1] + 1)..(x[2] - 1) : IsSpace(c[k])
                 /\ c[x[2]] # "\n"}
  IN IF hits = {} THEN None
     ELSE LET i == Min({x[1] : x \in hits})
              g == Max({x[2] : x \in {y \in hits : y[1] = i}})
              e == Max({k \in g..Len(c) : \A j \in g..k : c[j] # "\n"})
          IN Some(SubSeq(c, g, e))

\* str.replace(old, new)
RECURSIVE Replace(_, _, _)
Replace(s, old, new) ==
  IF Find(s, old) = 0 \/ old = << >> THEN s
  ELSE Upto(s, Find(s, old) - 1) \o new \o Replace(From(s, Find(s, old) + Len(old)), old, new)

CATEGORY_MAP == <<
  <<<<"a", "q", "u", "a", "t", "i", "c">>, <<"U+6C34", "U+4EA7">>>>,
  <<<<"b", "r", "e", "a", "k", "f", "a", "s", "t">>, <<"U+65E9", "U+9910">>>>,
  <<<<"c", "o", "n", "d", "i", "m", "e", "n", "t">>, <<"U+8C03", "U+5473", "U+6599">>>>,
  <<<<"d", "e", "s", "s", "e", "r", "t">>, <<"U+751C", "U+70B9">>>>,
  <<<<"d", "r", "i", "n", "k">>, <<"U+996E", "U+54C1">>>>,
  <<<<"m", "e", "a", "t", "_", "d", "i", "s", "h">>, <<"U+8364", "U+83DC">>>>,
  <<<<"s", "e", "m", "i", "-", "f", "i", "n", "i", "s", "h", "e", "d">>,
    <<"U+534A", "U+6210", "U+54C1">>>>,
  <<<<"s", "o", "u", "p">>, <<"U+6C64">>>>,
  <<<<"s", "t", "a", "p", "l", "e">>, <<"U+4E3B", "U+98DF">>>>,
  <<<<"v", "e", "g", "e", "t", "a", "b", "l", "e", "_", "d", "i", "s", "h">>,
    <<"U+7D20", "U+83DC">>>>,
  <<<<"t", "e", "m", "p", "l", "a", "t", "e">>, <<"U+6A21", "U+677F">>>> >>

\* line 456: CATEGORY_MAP.get(parts[0], parts[0])
Category(relative_path) ==
  LET first == SplitOn(relative_path, {"/"})[1]
      known == {n \in 1..Len(CATEGORY_MAP) : CATEGORY_MAP[n][1] = first}
  IN IF known = {} THEN first ELSE CATEGORY_MAP[Min(known)][2]

\* line 452
RecipeId(relative_path) ==
  <<"d", "i", "s", "h", "e", "s", "-">>
    \o Replace(Replace(relative_path, <<"/">>, <<"-">>), <<".", "m", "d">>, << >>)

\* lines 444-514 for content that was read.  The directory of the document holds
\* no image file, so image_path stays None.
RecipeOf(c, relative_path) ==
  IF TitleMatch(c) = None THEN None
  ELSE Some([id |-> RecipeId(relative_path),
             name |-> Strip(TitleMatch(c)[1]),
             description |-> extract_description(c),
             source_path |-> <<"d", "i", "s", "h", "e", "s", "/">> \o relative_path,
             image_path |-> None,
             category |-> Category(relative_path),
             difficulty |-> parse_difficulty(c),
             tags |-> <<Category(relative_path)>>,
             servings |-> parse_servings(c),
             ingredients |-> parse_ingredients(c),
             steps |-> parse_steps(c),
             prep_time_minutes |-> None,
             cook_time_minutes |-> None,
             total_time_minutes |-> None,
             additional_notes |-> parse_notes(c)])

\* lines 439-518: a failing open()/read() raises, the except clause returns None
parse_recipe_file(c, can_read, relative_path) ==
  IF ~can_read THEN None ELSE RecipeOf(c, relative_path)

-----------------------------------------------------------------------------
(* convert_all_recipes                                                     *)

TEMPLATE == <<"t", "e", "m", "p", "l", "a", "t", "e">>

\* line 546: 'template' in str(relative_path).lower()
IsTemplate(relative_path) == Contains(LowerStr(relative_path), TEMPLATE)

\* ord() of the characters a recipe id is made of
CodePoint(ch) ==
  LET lower == <<"a", "b", "c", "d", "e", "f", "g", "h", "i", "j", "k", "l", "m",
                 "n", "o", "p", "q", "r", "s", "t", "u", "v", "w", "x", "y", "z">>
      upper == <<"A", "B", "C", "D", "E", "F", "G", "H", "I", "J", "K", "L", "M",
                 "N", "O", "P", "Q", "R", "S", "T", "U", "V", "W", "X", "Y", "Z">>
      digit == <<"0", "1", "2", "3", "4", "5", "6", "7", "8", "9">>
  IN IF ch \in LowerLetters THEN 96 + (CHOOSE k \in 1..26 : lower[k] = ch)
     ELSE IF ch \in UpperLetters THEN 64 + (CHOOSE k \in 1..26 : upper[k] = ch)
     ELSE IF ch \in Digits THEN 47 + (CHOOSE k \in 1..10 : digit[k] = ch)
     ELSE CASE ch = "-" -> 45 [] ch = "." -> 46 [] ch = "/" -> 47 [] ch = "_" -> 95

\* a < b for Python strings
RECURSIVE StrLess(_, _)
StrLess(a, b) ==
  IF b = << >> THEN FALSE
  ELSE IF a = << >> THEN TRUE
  ELSE IF Head(a) = Head(b) THEN StrLess(Tail(a), Tail(b))
  ELSE CodePoint(Head(a)) < CodePoint(Head(b))

\* a faulty variant: the list is written in the order it was collected
NotSorted(rs) == rs

\* list.sort(key=lambda x: x['id']): a stable sort (insertion of each record after
\* the records whose id is not greater)
RECURSIVE SortById(_)
SortById(rs) ==
  IF rs = << >> THEN << >>
  ELSE LET sorted == SortById(Upto(rs, Len(rs) - 1))
           r == rs[Len(rs)]
           before == {k \in 0..Len(sorted) : \A j \in 1..k : ~StrLess(r.id, sorted[j].id)}
           k == Max(before)
       IN Upto(sorted, k) \o <<r>> \o From(sorted, k + 1)

-----------------------------------------------------------------------------
(* Inputs                                                                  *)

\* every text made of at most n of the given pieces
Texts(pieces, n) ==
  {Join(ps, << >>) : ps \in UNION {[1..k -> pieces] : k \in 0..n}}

\* every document of 1..n of the given lines
Docs(lines, n) ==
  {Join(ls, <<"\n">>) : ls \in UNION {[1..k -> lines] : k \in 1..n}}

YAN == "U+76D0"
CAI == "U+83DC"
QIE == "U+5207"
SHILIANG == <<"U+9002", "U+91CF">>

NoFiles == [exists |-> FALSE, md |-> << >>]

\* the variables a specification does not use
IdleBatch == files = NoFiles /\ todo = {} /\ recipes = << >> /\ output = None
IdleDoc == content = << >> /\ readable = TRUE
IdleLine == text = << >> /\ applied = FALSE

-----------------------------------------------------------------------------
(* Spec: parse_recipe_file on one document                                 *)

MaxFileLines == 3

RELATIVE_PATH == <<"a", "/", "b", ".", "m", "d">>

FILE_LINES ==
  { <<"#", " ", CAI>>,
    <<"#">>,
    <<"#", " ", " ">>,
    << >>,
    <<CAI>>,
    <<"#", "#", " ">> \o H_jisuan }

Init ==
  /\ pc = "start"
  /\ content \in Docs(FILE_LINES, MaxFileLines)
  /\ readable \in BOOLEAN
  /\ ret = None
  /\ IdleLine /\ IdleBatch

ParseRecipeFile ==
  /\ pc = "start"
  /\ pc' = "parse_recipe_file"
  /\ ret' = parse_recipe_file(content, readable, RELATIVE_PATH)
  /\ UNCHANGED <<content, readable, text, applied, files, todo, recipes, output>>

Next == ParseRecipeFile

Spec == Init /\ [][Next]_vars

\* a top-level title heading: a line that starts with '#', then blanks, then title text
IsTitleLine(line) ==
  Len(line) >= 3 /\ line[1] = "#" /\ IsSpace(line[2]) /\ Strip(Tail(line)) # << >>

HasTitleHeading(c) == \E k \in 1..Len(SplitLines(c)) : IsTitleLine(SplitLines(c)[k])

\* a Recipe whose regions are all missing holds the degraded values, not None
IsCompleteRecipe(r) ==
  /\ DOMAIN r = {"id", "name", "description", "source_path", "image_path", "category",
                 "difficulty", "tags", "servings", "ingredients", "steps",
                 "prep_time_minutes", "cook_time_minutes", "total_time_minutes",
                 "additional_notes"}
  /\ r.difficulty >= 1
  /\ r.servings = 1

\* C1: parse_recipe_file of a readable document returns None exactly when the
\* document has no top-level title heading, and a complete Recipe otherwise.
C1_AbsentIffNoTitle ==
  (pc = "parse_recipe_file" /\ readable) =>
    /\ (ret = None) <=> ~HasTitleHeading(content)
    /\ ret # None => IsCompleteRecipe(ret[1])

-----------------------------------------------------------------------------
(* SpecSteps: parse_steps on one document                                  *)

MaxStepLines == 4

STEP_LINES ==
  { <<"#", "#", " ">> \o H_caozuo,
    <<"-", " ", QIE>>,
    <<"2", ".", " ", QIE>>,
    <<"1", ".", " ", CAI>>,
    << >>,
    <<YAN>> }

InitSteps ==
  /\ pc = "start"
  /\ content \in Docs(STEP_LINES, MaxStepLines)
  /\ readable = TRUE
  /\ ret = None
  /\ IdleLine /\ IdleBatch

ParseSteps ==
  /\ pc = "start"
  /\ pc' = "parse_steps"
  /\ ret' = parse_steps(content)
  /\ UNCHANGED <<content, readable, text, applied, files, todo, recipes, output>>

NextSteps == ParseSteps

SpecSteps == InitSteps /\ [][NextSteps]_vars

\* C2: the steps parse_steps returns are numbered 1, 2, 3, ... in line order,
\* whatever numerals the lines carry and whatever lies between them.
C2_StepMonotonicity ==
  pc = "parse_steps" => \A i \in 1..Len(ret) : ret[i].step = i

\* two steps out of lines numbered 2 and 1, in that order, with a line that does
\* not qualify between them
C2_Witness ==
  /\ pc = "parse_steps"
  /\ Len(ret) = 2
  /\ ret[1].description = <<QIE>> /\ ret[2].description = <<CAI>>
  /\ \E k \in 1..Len(content) : MatchAt(content, k, <<"2", ".", " ", QIE, "\n", YAN, "\n", "1", ".", " ", CAI>>)

-----------------------------------------------------------------------------
(* SpecEntry: _create_ingredient_entry on one line                         *)

MaxEntryLen == 4

ENTRY_PIECES ==
  { <<YAN>>, <<"(">>, <<")">>, <<FullColon>>, <<"1">>, <<"G">>, <<"=">>, <<" ">> }

InitEntry ==
  /\ pc = "start"
  /\ text \in Texts(ENTRY_PIECES, MaxEntryLen)
  /\ applied = FALSE
  /\ ret = None
  /\ IdleDoc /\ IdleBatch

CreateIngredientEntry ==
  /\ pc = "start"
  /\ pc' = "_create_ingredient_entry"
  /\ ret' = _create_ingredient_entry(text)
  /\ applied' = ReachesSentinel(text)
  /\ UNCHANGED <<content, readable, text, files, todo, recipes, output>>

NextEntry == CreateIngredientEntry

SpecEntry == InitEntry /\ [][NextEntry]_vars

Emitted == pc = "_create_ingredient_entry" /\ ret # None

\* an opening parenthesis followed, later, by a closing one
HasParenSpan(s) ==
  \E i \in 1..Len(s) : \E j \in (i + 1)..Len(s) : s[i] \in OpenParens /\ s[j] \in CloseParens

\* C3: the name of every emitted Ingredient is non-empty and contains no
\* parenthesized span, empty and nested parentheses included.
C3_NameInvariant ==
  Emitted => /\ ret[1].name # None
             /\ ret[1].name[1] # << >>
             /\ ~HasParenSpan(ret[1].name[1])

\* C4: in every emitted Ingredient quantity and unit are both set or both None,
\* and a unit that is set is a member of the unit vocabulary, case ignored.
C4_QuantityPairing ==
  Emitted => /\ (ret[1].quantity # None) <=> (ret[1].unit # None)
             /\ ret[1].unit # None =>
                  \E n \in 1..Len(UNITS) : LowerStr(UNITS[n]) = LowerStr(ret[1].unit[1])

\* the pair came from the whole-line fallback: the quantity fragment holds no
\* match, and the unit is written in the other case than the vocabulary's
C4_Witness ==
  /\ Emitted
  /\ ret[1].quantity = Some([m |-> 1, e |-> 0])
  /\ ret[1].unit = Some(<<"G">>)
  /\ _split_name_quantity(text)[2] # << >>
  /\ QuantitySearch(_split_name_quantity(text)[2]) = None

\* C5: an emitted Ingredient with no quantity, no text_quantity and no extracted
\* parenthetical note carries the sentinel note; none has all three of quantity,
\* text_quantity and notes None; and the sentinel is set only when quantity and
\* text_quantity are both None.
C5_Sentinel ==
  Emitted =>
    /\ (ret[1].quantity = None /\ ret[1].text_quantity = None
          /\ ExtractedNotes(Strip(text)) = << >>) => ret[1].notes = Some(SENTINEL)
    /\ ~(ret[1].quantity = None /\ ret[1].text_quantity = None /\ ret[1].notes = None)
    /\ applied => (ret[1].quantity = None /\ ret[1].text_quantity = None
                     /\ ret[1].notes = Some(SENTINEL))
    /\ (ret[1].quantity # None \/ ret[1].text_quantity # None) => ~applied

\* a bare name: the sentinel was set
C5_Witness ==
  /\ Emitted
  /\ applied
  /\ ret[1].name = Some(<<YAN>>)
  /\ ret[1].notes = Some(SENTINEL)

-----------------------------------------------------------------------------
(* SpecSplit: _split_name_quantity on one fragment                         *)

MaxSplitPieces == 4

SPLIT_PIECES ==
  { <<YAN>>, <<FullColon>>, <<":">>, <<"=">>, <<"1">>, <<"g">>, SHILIANG, <<")">>, <<" ">> }

InitSplit ==
  /\ pc = "start"
  /\ text \in Texts(SPLIT_PIECES, MaxSplitPieces)
  /\ applied = FALSE
  /\ ret = None
  /\ IdleDoc /\ IdleBatch

SplitNameQuantity ==
  /\ pc = "start"
  /\ pc' = "_split_name_quantity"
  /\ ret' = _split_name_quantity(text)
  /\ UNCHANGED <<content, readable, text, applied, files, todo, recipes, output>>

NextSplit == SplitNameQuantity

SpecSplit == InitSplit /\ [][NextSplit]_vars

\* the two sides of a split at position k, the separator of width w left out
SidesAt(t, k, w) == <<Strip(Upto(t, k - 1)), Strip(From(t, k + w))>>

\* the results the strategies a-e allow for a fragment, the first applicable
\* strategy deciding
SplitsByPriority(t) ==
  LET colons == {k \in 1..Len(t) : t[k] \in {FullColon, ":"}}
      equals == {k \in 1..Len(t) : t[k] = "="}
      digits == {k \in 1..Len(t) : IsDigit(t[k]) /\ (k = 1 \/ ~IsLatin(t[k - 1]))}
      endings == {n \in 1..Len(QUALITATIVE_KEYWORDS) : EndsWith(t, QUALITATIVE_KEYWORDS[n])}
  IN IF colons # {} THEN {SidesAt(t, Min(colons), 1)}
     ELSE IF equals # {} THEN {SidesAt(t, Min(equals), 1)}
     ELSE IF digits # {} THEN {SidesAt(t, Min(digits), 0)}
     ELSE IF endings # {}
       THEN {<<Strip(Upto(t, Len(t) - Len(QUALITATIVE_KEYWORDS[n]))), QUALITATIVE_KEYWORDS[n]>> :
               n \in endings}
     ELSE {<<Strip(t), << >>>>}

\* C8: _split_name_quantity returns what the first applicable of the strategies
\* a-e gives: the first colon of either kind, else the first '=', else the first
\* digit not preceded by a Latin letter, else a trailing keyword, else no split.
C8_SplitPriority ==
  (pc = "_split_name_quantity" /\ text # << >>) => ret \in SplitsByPriority(text)

-----------------------------------------------------------------------------
(* SpecDoc: parse_ingredients, parse_steps and parse_notes on one document *)

MaxDocLines == 3

DOC_LINES ==
  { <<"#", "#", " ">> \o H_jisuan,
    <<"#", "#", " ">> \o H_jisuan_he_caozuo,
    <<"#", "#", " ">> \o H_caozuo,
    <<"#", "#", "#", " ">> \o H_caozuo,
    <<"#", "#", " ">> \o H_fujia,
    <<"-", " ", YAN>>,
    <<"1", ".", " ", QIE>> }

InitDoc ==
  /\ pc = "start"
  /\ content \in Docs(DOC_LINES, MaxDocLines)
  /\ readable = TRUE
  /\ ret = None
  /\ IdleLine /\ IdleBatch

ParseIngredients ==
  /\ pc = "start"
  /\ pc' = "parse_ingredients"
  /\ ret' = parse_ingredients(content)
  /\ UNCHANGED <<content, readable, text, applied, files, todo, recipes, output>>

ParseNotes ==
  /\ pc = "start"
  /\ pc' = "parse_notes"
  /\ ret' = parse_notes(content)
  /\ UNCHANGED <<content, readable, text, applied, files, todo, recipes, output>>

NextDoc == ParseIngredients \/ ParseSteps \/ ParseNotes

SpecDoc == InitDoc /\ [][NextDoc]_vars

\* a second-level heading whose trimmed text is equal to name
IsHeadingNamed(line, name) ==
  /\ StartsWith(line, <<"#", "#">>)
  /\ ~StartsWith(line, <<"#", "#", "#">>)
  /\ Strip(From(line, 3)) = name

IsSecondLevelHeading(line) ==
  StartsWith(line, <<"#", "#">>) /\ ~StartsWith(line, <<"#", "#", "#">>)

\* the lines of the section under the first heading equal to the first candidate
\* that names a heading at all; None when no heading equals any candidate
SectionByEquality(c, names) ==
  LET lines == SplitLines(c)
      named == {n \in 1..Len(names) : \E k \in 1..Len(lines) : IsHeadingNamed(lines[k], names[n])}
  IN IF named = {} THEN None
     ELSE LET n == Min(named)
              k == Min({j \in 1..Len(lines) : IsHeadingNamed(lines[j], names[n])})
              m == Min({j \in (k + 1)..(Len(lines) + 1) :
                          j = Len(lines) + 1 \/ IsSecondLevelHeading(lines[j])})
          IN Some(SubSeq(lines, k + 1, m - 1))

\* C6: parse_ingredients and parse_steps read the section under a second-level
\* heading whose trimmed text equals a candidate name, the candidates tried in
\* priority order, and return the empty list when no heading equals a candidate.
C6_HeadingEquality ==
  /\ pc = "parse_ingredients" =>
       ret = (IF SectionByEquality(content, <<H_jisuan, H_bibei>>) = None THEN << >>
              ELSE IngredientsOfLines(SectionByEquality(content, <<H_jisuan, H_bibei>>)[1]))
  /\ pc = "parse_steps" =>
       ret = (IF SectionByEquality(content, STEP_SECTIONS) = None THEN << >>
              ELSE StepsOfLines(SectionByEquality(content, STEP_SECTIONS)[1], 1))

\* the note lines of the text that follows the steps section
NotesAfterSteps(c) ==
  IF StepSection(c) = None THEN << >>
  ELSE NotesOfLines(SplitLines(From(c, StepSection(c)[1].to + 1)))

\* C10: parse_notes returns the note lines of the dedicated notes section when
\* there is one; when there is none, every note it returns is a line that comes
\* after the steps section; and every note begins with '-', '*' or the fixed phrase.
C10_NotesAfterSteps ==
  pc = "parse_notes" =>
    /\ SectionSearch(content, <<H_fujia>>) # None =>
         ret = NotesOfLines(SplitLines(SectionText(content, SectionSearch(content, <<H_fujia>>)[1])))
    /\ SectionSearch(content, <<H_fujia>>) = None =>
         \A i \in 1..Len(ret) : \E k \in 1..Len(NotesAfterSteps(content)) :
            ret[i] = NotesAfterSteps(content)[k]
    /\ \A i \in 1..Len(ret) :
         StartsWith(ret[i], <<"-">>) \/ StartsWith(ret[i], <<"*">>) \/ StartsWith(ret[i], RUGUO)

-----------------------------------------------------------------------------
(* SpecLine: parse_ingredients on a section that holds one list line       *)

MaxLinePieces == 4

LINE_PIECES ==
  { <<YAN>>, <<YAN, Dunhao>>, <<FullComma>>, <<"1">>, <<"=">>, <<":">>, <<FullColon>>, <<"*">> }

\* the document "## <ingredients heading>", then the list line "<marker> <line>"
OneLineSection(marker, line) ==
  <<"#", "#", " ">> \o H_jisuan \o <<"\n", marker, " ">> \o line

InitLine ==
  /\ pc = "start"
  /\ text \in Texts(LINE_PIECES, MaxLinePieces)
  /\ content \in {OneLineSection(marker, text) : marker \in {"-", "*"}}
  /\ readable = TRUE
  /\ applied = FALSE
  /\ ret = None
  /\ IdleBatch

NextLine == ParseIngredients

SpecLine == InitLine /\ [][NextLine]_vars

HasEnumerationComma(line) == \E k \in 1..Len(line) : line[k] \in {Dunhao, FullComma}
HasDigit(line) == \E k \in 1..Len(line) : line[k] \in Digits
HasStructuralSeparator(line) == \E k \in 1..Len(line) : line[k] \in {"=", ":", FullColon, "*"}

\* the record of a bare name: no quantity, no unit, no text_quantity, the sentinel
Unspecified(name) ==
  [name |-> Some(name), quantity |-> None, unit |-> None, text_quantity |-> None,
   notes |-> Some(SENTINEL)]

\* C9: a list line (text is the line after its list marker, which is '-' or '*')
\* yields more than one Ingredient only if it holds an enumeration comma, no digit and none of '=', ':', the full-width colon and '*';
\* a line with a digit or one of those separators yields at most one; and a line
\* that meets the condition yields the records of its non-empty fragments, each
\* taken through the single-item path, in fragment order.
C9_MultiItem ==
  pc = "parse_ingredients" =>
    /\ Len(ret) > 1 =>
         (HasEnumerationComma(text) /\ ~HasDigit(text) /\ ~HasStructuralSeparator(text))
    /\ (HasDigit(text) \/ HasStructuralSeparator(text)) => Len(ret) <= 1
    /\ (HasEnumerationComma(text) /\ ~HasDigit(text) /\ ~HasStructuralSeparator(text)) =>
         ret = EntriesOf(NonEmpty(StripEach(SplitOn(text, {Dunhao, FullComma}))))
    /\ text = <<YAN, Dunhao, YAN, Dunhao, YAN>> =>
         ret = <<Unspecified(<<YAN>>), Unspecified(<<YAN>>), Unspecified(<<YAN>>)>>

\* three names joined by commas gave three records
C9_Witness ==
  /\ pc = "parse_ingredients"
  /\ text = <<YAN, Dunhao, YAN, Dunhao, YAN>>
  /\ Len(ret) = 3

-----------------------------------------------------------------------------
(* SpecBatch: convert_all_recipes over a directory of documents            *)

MaxFiles == 3

\* the relative paths rglob('*.md') may yield; the first MaxFiles of them are used
PATHS == <<
  <<"b", ".", "m", "d">>,
  <<"a", "/", "b", ".", "m", "d">>,
  <<"T", "e", "m", "p", "l", "a", "t", "e", "/", "a", ".", "m", "d">>,
  <<"a", "-", "b", ".", "m", "d">> >>

UsedPaths == {PATHS[k] : k \in 1..(IF MaxFiles <= Len(PATHS) THEN MaxFiles ELSE Len(PATHS))}

\* a document with a title, one without, and one that cannot be read
BATCH_FILES ==
  { [content |-> <<"#", " ", CAI>>, readable |-> TRUE],
    [content |-> <<CAI>>, readable |-> TRUE],
    [content |-> <<"#", " ", CAI>>, readable |-> FALSE] }

InitBatch ==
  /\ pc = "start"
  /\ files \in {NoFiles} \cup
       {[exists |-> TRUE, md |-> f] : f \in UNION {[ps -> BATCH_FILES] : ps \in SUBSET UsedPaths}}
  /\ todo = {}
  /\ recipes = << >>
  /\ output = None
  /\ ret = None
  /\ IdleDoc /\ IdleLine

\* lines 537-539: dishes/ does not exist, nothing is written
ReturnNoDishes ==
  /\ pc = "start"
  /\ ~files.exists
  /\ pc' = "returned"
  /\ UNCHANGED <<content, readable, text, ret, applied, files, todo, recipes, output>>

\* lines 534-542: the loop starts over what rglob yields
StartLoop ==
  /\ pc = "start"
  /\ files.exists
  /\ pc' = "loop"
  /\ todo' = DOMAIN files.md
  /\ recipes' = << >>
  /\ UNCHANGED <<content, readable, text, ret, applied, files, output>>

\* lines 546-547
SkipTemplate ==
  /\ pc = "loop"
  /\ \E path \in todo :
       /\ IsTemplate(path)
       /\ todo' = todo \ {path}
  /\ UNCHANGED <<pc, content, readable, text, ret, applied, files, recipes, output>>

\* lines 549-553
ProcessFile ==
  /\ pc = "loop"
  /\ \E path \in todo :
       /\ ~IsTemplate(path)
       /\ todo' = todo \ {path}
       /\ ret' = parse_recipe_file(files.md[path].content, files.md[path].readable, path)
       /\ recipes' = IF ret' # None THEN Append(recipes, ret'[1]) ELSE recipes
  /\ UNCHANGED <<pc, content, readable, text, applied, files, output>>

\* lines 556-563: sort in place, then write
WriteOutput ==
  /\ pc = "loop"
  /\ todo = {}
  /\ recipes' = SortById(recipes)
  /\ output' = Some(SortById(recipes))
  /\ pc' = "written"
  /\ UNCHANGED <<content, readable, text, ret, applied, files, todo>>

NextBatch == ReturnNoDishes \/ StartLoop \/ SkipTemplate \/ ProcessFile \/ WriteOutput

\* the run is one sequential call: it keeps taking its next step
SpecBatch == InitBatch /\ [][NextBatch]_vars /\ WF_vars(NextBatch)

\* the records of the documents, templates aside, whose parse returned a Recipe
ParsedRecipes ==
  {parse_recipe_file(files.md[path].content, files.md[path].readable, path)[1] :
     path \in {q \in DOMAIN files.md :
                 /\ ~IsTemplate(q)
                 /\ parse_recipe_file(files.md[q].content, files.md[q].readable, q) # None}}

OutputIsParsedAndSorted ==
  /\ output # None
  /\ todo = {}
  /\ {output[1][i] : i \in 1..Len(output[1])} = ParsedRecipes
  /\ Len(output[1]) = Cardinality(ParsedRecipes)
  /\ \A i \in 1..Len(output[1]) : \A j \in (i + 1)..Len(output[1]) :
       ~StrLess(output[1][j].id, output[1][i].id)

\* C7: whatever the documents are, a run over an existing dishes/ reaches the
\* write, no document stops the loop, and what is written is exactly the records
\* of the non-template documents whose parse returned a Recipe, in ascending id.
C7_BatchCompletes ==
  /\ [](pc = "written" => OutputIsParsedAndSorted)
  /\ [](files.exists => <>(pc = "written"))

\* two records were collected in descending id order and written in ascending
\* order, next to a template that was skipped
C7_Witness ==
  /\ pc = "written"
  /\ Len(output[1]) = 2
  /\ StrLess(output[1][1].id, output[1][2].id)
  /\ ret # None /\ ret[1] = output[1][1]
  /\ Cardinality(DOMAIN files.md) = 3

-----------------------------------------------------------------------------
(* SpecDesc: extract_description on one document                           *)

MaxDescLines == 4

LABEL_LINE == DIFFICULTY_LABEL \o <<STAR>>

DESC_LINES ==
  { <<"#", " ", CAI>>,
    << >>,
    LABEL_LINE,
    <<CAI>>,
    <<"#", "#", " ">> \o H_jisuan,
    <<" ">> }

InitDesc ==
  /\ pc = "start"
  /\ content \in Docs(DESC_LINES, MaxDescLines)
  /\ readable = TRUE
  /\ ret = None
  /\ IdleLine /\ IdleBatch

ExtractDescription ==
  /\ pc = "start"
  /\ pc' = "extract_description"
  /\ ret' = extract_description(content)
  /\ UNCHANGED <<content, readable, text, applied, files, todo, recipes, output>>

NextDesc == ExtractDescription

SpecDesc == InitDesc /\ [][NextDesc]_vars

\* the document has a title and holds the difficulty label somewhere
HasTitleAndLabel(c) == TitleMatch(c) # None /\ DifficultyMatch(c) # None

\* C11: the description of a document that has a title and holds the difficulty
\* label ends with that label, and the label is not added a second time when
\* the preamble already ends with it.
C11_DescriptionEndsWithLabel ==
  (pc = "extract_description" /\ HasTitleAndLabel(content)) =>
    LET label == DifficultyMatch(content)[1].group0
    IN /\ EndsWith(ret, label)
       /\ ~EndsWith(ret, label \o <<"\n", "\n">> \o label)

====
